---- MODULE Spec2Model ----
(***************************************************************************)
(* cortex CLI (cli/src/main.rs): the RPC exchange `call` and the value     *)
(* bridge json_to_msgpack / msgpack_to_json.                               *)
(*                                                                         *)
(* Representation.  TLC's integers are 32-bit signed, so every program     *)
(* integer that can exceed that range (the u32 correlation id, the i64/u64 *)
(* payload of a wire or JSON integer) is a decimal numeral: a sequence of  *)
(* digit characters without leading zeros.  A text is a sequence of        *)
(* one-character strings; fixed pieces of the program's own messages are   *)
(* single tokens.  A byte string is a sequence of bytes, each either an    *)
(* ASCII character (written as that character) or BadByte, the byte 0xFF,  *)
(* which is never part of valid UTF-8.                                     *)
(***************************************************************************)
EXTENDS Integers, Sequences, FiniteSets, TLC

(***************************************************************************)
(* Bounds of the model.                                                    *)
(***************************************************************************)
\* longest array / map / object drawn as an input of the value bridge
MaxLen == 2
\* longest array a daemon reply decodes to (4 is the envelope length)
MaxReplyLen == 5
\* invocations of call in one run of the process
MaxCalls == 2
\* threads of the host program in the concurrent specification
NumThreads == 2

(***************************************************************************)
(* Option values (Rust's Option<T>).                                       *)
(***************************************************************************)
None == [some |-> FALSE]
Some(x) == [some |-> TRUE, val |-> x]

(***************************************************************************)
(* Decimal numerals.                                                       *)
(***************************************************************************)
DigitVal == [c \in {"0", "1", "2", "3", "4", "5", "6", "7", "8", "9"} |->
               CASE c = "0" -> 0 [] c = "1" -> 1 [] c = "2" -> 2 [] c = "3" -> 3
                 [] c = "4" -> 4 [] c = "5" -> 5 [] c = "6" -> 6 [] c = "7" -> 7
                 [] c = "8" -> 8 [] c = "9" -> 9]
DigitChar == <<"1", "2", "3", "4", "5", "6", "7", "8", "9">>

\* a < b for numerals of equal length
RECURSIVE LexLess(_, _)
LexLess(a, b) ==
    IF a = <<>> THEN FALSE
    ELSE IF Head(a) = Head(b) THEN LexLess(Tail(a), Tail(b))
    ELSE DigitVal[Head(a)] < DigitVal[Head(b)]

NumLess(a, b) == Len(a) < Len(b) \/ (Len(a) = Len(b) /\ LexLess(a, b))
NumLeq(a, b) == a = b \/ NumLess(a, b)

\* a + 1
RECURSIVE NumSucc(_)
NumSucc(a) ==
    IF a = <<>> THEN <<"1">>
    ELSE LET n == Len(a)
             last == a[n]
             init == SubSeq(a, 1, n - 1)
         IN IF last = "9" THEN NumSucc(init) \o <<"0">>
            ELSE Append(init, DigitChar[DigitVal[last] + 1])

Zero == <<"0">>
One == <<"1">>
FortyTwo == <<"4", "2">>
\* u32::MAX = 2^32 - 1
U32Max == <<"4", "2", "9", "4", "9", "6", "7", "2", "9", "5">>
\* i64::MAX = 2^63 - 1
I64Max == <<"9", "2", "2", "3", "3", "7", "2", "0", "3", "6",
            "8", "5", "4", "7", "7", "5", "8", "0", "7">>
\* 2^63 = |i64::MIN|, the smallest u64 that is no i64
Two63 == <<"9", "2", "2", "3", "3", "7", "2", "0", "3", "6",
           "8", "5", "4", "7", "7", "5", "8", "0", "8">>

(***************************************************************************)
(* Wire Values (rmpv::Value).                                              *)
(***************************************************************************)
Nil == [t |-> "Nil"]
Boolean(b) == [t |-> "Boolean", b |-> b]
\* rmpv::Integer: a u64 (neg = FALSE) or a negative i64 (neg = TRUE, digits
\* its magnitude)
Integer(neg, digits) == [t |-> "Integer", neg |-> neg, digits |-> digits]
\* a float is the text Rust prints for it
F32(f) == [t |-> "F32", f32 |-> f]
F64(f) == [t |-> "F64", f64 |-> f]
\* rmpv::Utf8String: the bytes, valid UTF-8 or not
String(bytes) == [t |-> "String", bytes |-> bytes]
Binary(bytes) == [t |-> "Binary", bytes |-> bytes]
Array(items) == [t |-> "Array", items |-> items]
\* Vec<(Value, Value)>
Map(entries) == [t |-> "Map", entries |-> entries]
Ext(tag, data) == [t |-> "Ext", tag |-> tag, data |-> data]

BadByte == "xFF"
\* the replacement character U+FFFD
Replacement == "uFFFD"

NaN == <<"N", "a", "N">>
Inf == <<"i", "n", "f">>
OneAndHalf == <<"1", ".", "5">>

\* f64::is_finite, as serde_json::Number::from_f64 tests it
IsFinite(f) == f \notin {NaN, Inf, <<"-">> \o Inf}

\* std::str::from_utf8(bytes).is_ok()
IsUtf8(bytes) == \A i \in 1..Len(bytes) : bytes[i] # BadByte

\* Utf8String::as_str: the text when the bytes are valid UTF-8
as_str(s) == IF IsUtf8(s.bytes) THEN Some(s.bytes) ELSE None

\* String::from_utf8_lossy: each invalid byte becomes U+FFFD
from_utf8_lossy(bytes) ==
    [i \in 1..Len(bytes) |-> IF bytes[i] = BadByte THEN Replacement ELSE bytes[i]]

\* rmpv::Integer::as_i64
as_i64(i) == IF i.neg \/ NumLeq(i.digits, I64Max) THEN Some(i) ELSE None
\* rmpv::Integer::as_u64
as_u64(i) == IF ~i.neg THEN Some(i) ELSE None

(***************************************************************************)
(* format!("{}", value): rmpv's Display of a Value.                        *)
(***************************************************************************)
ByteDec(b) ==
    CASE b = "a" -> <<"9", "7">>
      [] b = "b" -> <<"9", "8">>
      [] b = "2" -> <<"5", "0">>
      [] b = "4" -> <<"5", "2">>
      [] OTHER -> <<"2", "5", "5">>

RECURSIVE RenderBytes(_)
RenderBytes(bytes) ==
    IF bytes = <<>> THEN <<>>
    ELSE ByteDec(Head(bytes))
         \o (IF Len(bytes) > 1 THEN <<",", " ">> ELSE <<>>)
         \o RenderBytes(Tail(bytes))

RECURSIVE Render(_)
RECURSIVE RenderItems(_)
RECURSIVE RenderEntries(_)
RenderItems(items) ==
    IF items = <<>> THEN <<>>
    ELSE Render(Head(items))
         \o (IF Len(items) > 1 THEN <<",", " ">> ELSE <<>>)
         \o RenderItems(Tail(items))
RenderEntries(entries) ==
    IF entries = <<>> THEN <<>>
    ELSE Render(Head(entries)[1]) \o <<":", " ">> \o Render(Head(entries)[2])
         \o (IF Len(entries) > 1 THEN <<",", " ">> ELSE <<>>)
         \o RenderEntries(Tail(entries))
Render(v) ==
    CASE v.t = "Nil" -> <<"n", "i", "l">>
      [] v.t = "Boolean" -> IF v.b THEN <<"t", "r", "u", "e">>
                            ELSE <<"f", "a", "l", "s", "e">>
      [] v.t = "Integer" -> (IF v.neg THEN <<"-">> ELSE <<>>) \o v.digits
      [] v.t = "F32" -> v.f32
      [] v.t = "F64" -> v.f64
      [] v.t = "String" -> IF IsUtf8(v.bytes) THEN <<"\"">> \o v.bytes \o <<"\"">>
                           ELSE <<"[">> \o RenderBytes(v.bytes) \o <<"]">>
      [] v.t = "Binary" -> <<"[">> \o RenderBytes(v.bytes) \o <<"]">>
      [] v.t = "Array" -> <<"[">> \o RenderItems(v.items) \o <<"]">>
      [] v.t = "Map" -> <<"{">> \o RenderEntries(v.entries) \o <<"}">>
      [] v.t = "Ext" -> <<"[">> \o v.tag \o <<",", " ", "[">>
                        \o RenderBytes(v.data) \o <<"]", "]">>

(***************************************************************************)
(* Human Values (serde_json::Value).                                       *)
(***************************************************************************)
JNull == [j |-> "Null"]
JBool(b) == [j |-> "Bool", b |-> b]
\* serde_json::Number: PosInt(u64), NegInt(i64 < 0, digits its magnitude) or
\* Float(f64, finite)
PosInt(digits) == [k |-> "PosInt", digits |-> digits]
NegInt(digits) == [k |-> "NegInt", digits |-> digits]
Float(f) == [k |-> "Float", f |-> f]
JNumber(n) == [j |-> "Number", n |-> n]
JString(s) == [j |-> "String", s |-> s]
JArray(a) == [j |-> "Array", a |-> a]
\* serde_json::Map<String, Value>: a function from key texts to values
JObject(o) == [j |-> "Object", o |-> o]
EmptyObject == <<>>

\* serde_json::Number::from(i64) / from(u64), applied to an rmpv integer
NumberFrom(i) == IF i.neg THEN NegInt(i.digits) ELSE PosInt(i.digits)

\* serde_json::Number::as_i64
NumberAsI64(n) ==
    CASE n.k = "PosInt" -> IF NumLeq(n.digits, I64Max)
                           THEN Some(Integer(FALSE, n.digits)) ELSE None
      [] n.k = "NegInt" -> Some(Integer(TRUE, n.digits))
      [] OTHER -> None

\* serde_json::Number::as_f64 (never None without arbitrary precision); the
\* numerals of the model convert to f64 exactly
NumberAsF64(n) ==
    CASE n.k = "PosInt" -> Some(n.digits)
      [] n.k = "NegInt" -> Some(<<"-">> \o n.digits)
      [] OTHER -> Some(n.f)

(***************************************************************************)
(* json_to_msgpack (Human -> Wire).                                        *)
(***************************************************************************)
\* a faulty Number arm: every number is sent as a 64-bit float
NumberToWireAlwaysFloat(n) == F64(NumberAsF64(n).val)

\* the Number arm of json_to_msgpack
NumberToWire(n) ==
    IF NumberAsI64(n).some THEN NumberAsI64(n).val
    ELSE IF NumberAsF64(n).some THEN F64(NumberAsF64(n).val)
    ELSE Nil

\* obj.iter(): the entries of an object in the order the map yields them
KeySeq(keys) ==
    CHOOSE s \in [1..Cardinality(keys) -> keys] : {s[i] : i \in DOMAIN s} = keys

RECURSIVE json_to_msgpack(_)
json_to_msgpack(value) ==
    CASE value.j = "Null" -> Nil
      [] value.j = "Bool" -> Boolean(value.b)
      [] value.j = "Number" -> NumberToWire(value.n)
      [] value.j = "String" -> String(value.s)
      [] value.j = "Array" ->
            Array([i \in 1..Len(value.a) |-> json_to_msgpack(value.a[i])])
      [] value.j = "Object" ->
            LET ks == KeySeq(DOMAIN value.o)
            IN Map([i \in 1..Len(ks) |->
                       <<String(ks[i]), json_to_msgpack(value.o[ks[i]])>>])

(***************************************************************************)
(* msgpack_to_json (Wire -> Human).                                        *)
(***************************************************************************)
\* a faulty key rule: an entry whose key is no text string is dropped
MapKeyStringsOnly(k) == IF k.t = "String" THEN as_str(k) ELSE None

\* the key of a map entry: Some(text), or None for an entry filter_map drops
MapKey(k) == IF k.t = "String" THEN as_str(k) ELSE Some(Render(k))

\* a different String arm: malformed text is decoded lossily, as a Binary is
StringToJsonLossy(s) == JString(from_utf8_lossy(s.bytes))

\* the String arm: s.as_str().unwrap_or_default().to_string()
StringToJson(s) == JString(IF as_str(s).some THEN as_str(s).val ELSE <<>>)

\* the Integer arm
IntegerToJson(i) ==
    IF as_i64(i).some THEN JNumber(NumberFrom(as_i64(i).val))
    ELSE IF as_u64(i).some THEN JNumber(NumberFrom(as_u64(i).val))
    ELSE JNull

\* the F32 and F64 arms: Number::from_f64(f).unwrap_or(Number::from(0))
FloatToJson(f) == JNumber(IF IsFinite(f) THEN Float(f) ELSE PosInt(Zero))

RECURSIVE msgpack_to_json(_)
RECURSIVE CollectEntries(_, _)
\* .collect() into serde_json::Map of the first n entries: a later entry
\* replaces an earlier one with the same key
CollectEntries(entries, n) ==
    IF n = 0 THEN EmptyObject
    ELSE LET key == MapKey(entries[n][1])
             rest == CollectEntries(entries, n - 1)
         IN IF key.some
            THEN (key.val :> msgpack_to_json(entries[n][2])) @@ rest
            ELSE rest
msgpack_to_json(value) ==
    CASE value.t = "Nil" -> JNull
      [] value.t = "Boolean" -> JBool(value.b)
      [] value.t = "Integer" -> IntegerToJson(value)
      [] value.t = "F32" -> FloatToJson(value.f32)
      [] value.t = "F64" -> FloatToJson(value.f64)
      [] value.t = "String" -> StringToJson(value)
      [] value.t = "Binary" -> JString(from_utf8_lossy(value.bytes))
      [] value.t = "Array" ->
            JArray([i \in 1..Len(value.items) |-> msgpack_to_json(value.items[i])])
      [] value.t = "Map" ->
            JObject(CollectEntries(value.entries, Len(value.entries)))
      [] value.t = "Ext" -> JNull

(***************************************************************************)
(* The RPC exchange: call(socket_path, method, params).                    *)
(***************************************************************************)
VARIABLES
    MSG_ID,         \* the process-wide counter (a u32 numeral)
    earlier,        \* invocations of call the process completed before the
                    \* modelled ones, each of which connected (a numeral)
    invoked,        \* invocations of call since then
    connectFailed,  \* those of them that ended in the connect error
    issued,         \* the ids placed in request envelopes since then, in order
    returned,       \* the ids of the calls that have returned
    pc,             \* per thread: the phase of its exchange
    args,           \* per thread: the arguments of its call
    floor,          \* per thread: `returned` when its call was invoked
    stream,         \* per thread: "none", "open" or "closed"
    msgid,          \* per thread: Option of the id fetch_add returned
    request,        \* per thread: Option of the request envelope
    buf,            \* per thread: Option of the bytes the read returned
    outcome,        \* per thread: Option of the Result the call returned
    ops,            \* per thread: connects, writes, reads, decodes so far
    bpc,            \* value bridge: "none", "human", "wire" or "shown"
    human,          \* value bridge: the Human Value given
    wire,           \* value bridge: the Wire Value given or produced
    shown,          \* value bridge: the Human Value produced
    stdout,         \* the lines the process has written to standard output
    stderr,         \* the lines the process has written to standard error
    exit            \* Option of the ExitCode main returned

procVars == <<MSG_ID, earlier, invoked, connectFailed, issued, returned>>
callVars == <<pc, args, floor, stream, msgid, request, buf, outcome, ops>>
bridgeVars == <<bpc, human, wire, shown>>
mainVars == <<stdout, stderr, exit>>
vars == <<procVars, callVars, bridgeVars, mainVars>>

Threads == 1..NumThreads
MainThread == 1

DEFAULT_SOCKET == <<"/run/cortex/cortex.sock">>

\* counters of the operations of one invocation saturate here
OpCap == 2
Bump(n) == IF n < OpCap THEN n + 1 ELSE n
NoOps == [connect |-> 0, write |-> 0, read |-> 0, decode |-> 0]

\* Result<Option<Value>, String>
Ok(v) == [ok |-> TRUE, val |-> v]
Err(msg) == [ok |-> FALSE, msg |-> msg]

\* the calls main makes: ping, get TABLE KEY, and ping on another socket
CallArgs ==
    { [socket_path |-> DEFAULT_SOCKET, method |-> <<"p", "i", "n", "g">>,
       params |-> <<>>],
      [socket_path |-> DEFAULT_SOCKET, method |-> <<"g", "e", "t">>,
       params |-> <<String(<<"a">>), String(<<"b">>)>>],
      [socket_path |-> <<"/tmp/other.sock">>, method |-> <<"p", "i", "n", "g">>,
       params |-> <<>>] }

\* the calls of a host program that only pings the default socket
FewCallArgs == { a \in CallArgs : a.socket_path = DEFAULT_SOCKET /\ a.params = <<>> }

\* std::io::Error texts of connect, write_all and read
ConnectErrors == { <<"No such file or directory (os error 2)">>,
                   <<"Connection refused (os error 111)">> }
WriteErrors == { <<"Broken pipe (os error 32)">> }
ReadErrors == { <<"Connection reset by peer (os error 104)">> }

\* a faulty counter: the add saturates at u32::MAX instead of wrapping
SaturatingAdd1(c) == IF c = U32Max THEN c ELSE NumSucc(c)

\* what fetch_add(1) stores in an AtomicU32: the value plus one, wrapping
WrappingAdd1(c) == IF c = U32Max THEN Zero ELSE NumSucc(c)

\* the request envelope [0, msgid, method, params]
BuildRequest(id, method, params) ==
    Array(<<Integer(FALSE, Zero), Integer(FALSE, id), String(method), Array(params)>>)

\* the correlation id a request envelope carries
IdOf(req) == req.items[2].digits

\* the bytes a read leaves in response_buf[..n]: none (n = 0), the encoding
\* of a value (trailing bytes ignored), or bytes that are no encoding (a
\* reply cut at the buffer's capacity, noise)
Empty == [bytes |-> "none"]
Malformed == [bytes |-> "malformed"]
Encoded(v) == [bytes |-> "value", value |-> v]

\* rmpv::decode::read_value
read_value(b) ==
    CASE b.bytes = "value" -> Ok(b.value)
      [] b.bytes = "none" -> Err(<<"failed to read MessagePack marker">>)
      [] OTHER -> Err(<<"failed to read MessagePack data">>)

\* a faulty shape test: five or more elements pass too
IsEnvelopeAtLeast4(response) ==
    response.t = "Array" /\ Len(response.items) >= 4

\* Value::Array(parts) if parts.len() == 4
IsEnvelope(response) == response.t = "Array" /\ Len(response.items) = 4

\* a faulty error test: a false in the error slot counts as no error
HasErrorTruthy(error) == error # Nil /\ error # Boolean(FALSE)

\* *error != Value::Nil
HasError(error) == error # Nil

UnknownError == <<"unknown error">>

\* err_str
ErrStr(error) ==
    IF error.t = "String"
    THEN (IF as_str(error).some THEN as_str(error).val ELSE UnknownError)
    ELSE Render(error)

\* a faulty match: only a reply of message type 1 is taken as an envelope
DispatchTyped(response) ==
    IF IsEnvelope(response) /\ response.items[1] = Integer(FALSE, One)
    THEN LET error == response.items[3]
             result == response.items[4]
         IN IF HasError(error) THEN Err(ErrStr(error)) ELSE Ok(Some(result))
    ELSE Err(<<"invalid response format">>)

\* the match on the decoded response
Dispatch(response) ==
    IF IsEnvelope(response)
    THEN LET error == response.items[3]
             result == response.items[4]
         IN IF HasError(error) THEN Err(ErrStr(error)) ELSE Ok(Some(result))
    ELSE Err(<<"invalid response format">>)

\* a faulty drop: the connection stays open
DropLeak(s) == s

\* `stream` goes out of scope: an open connection is closed
Drop(s) == IF s = "open" THEN "closed" ELSE s

\* a faulty return: an error sends the exchange back to connecting
ExitRetry(t, result) ==
    /\ pc' = [pc EXCEPT ![t] = IF result.ok THEN "Succeeded" ELSE "Connecting"]
    /\ outcome' = [outcome EXCEPT ![t] = IF result.ok THEN Some(result) ELSE None]
    /\ stream' = [stream EXCEPT ![t] = Drop(stream[t])]

\* call returns `result` (a `?` on an Err, or the value of the match)
Exit(t, result) ==
    /\ pc' = [pc EXCEPT ![t] = IF result.ok THEN "Succeeded" ELSE "Failed"]
    /\ outcome' = [outcome EXCEPT ![t] = Some(result)]
    /\ stream' = [stream EXCEPT ![t] = Drop(stream[t])]

\* the replies a daemon may send to thread t: any value, well-formed or not
ReplyTypes == { Integer(FALSE, One), Nil }
ReplyIds(t) == { Integer(FALSE, msgid[t].val), Integer(FALSE, FortyTwo) }
ErrorSlots == { Nil, String(<<"d", "e", "n", "i", "e", "d">>), String(<<"a", BadByte>>),
                Integer(FALSE, FortyTwo), Boolean(FALSE) }
ResultSlots == { Nil, Boolean(TRUE), String(<<"a", BadByte>>) }
Envelopes(t) ==
    { Array(<<ty, id, e, r>>) :
        ty \in ReplyTypes, id \in ReplyIds(t), e \in ErrorSlots, r \in ResultSlots }
\* the first n elements of a well-formed reply followed by an extra element
Prefix(t, n) ==
    SubSeq(<<Integer(FALSE, One), Integer(FALSE, msgid[t].val), Nil, Boolean(TRUE),
             String(<<"a">>), Nil>> \o [i \in 1..MaxReplyLen |-> Nil], 1, n)
NonEnvelopes(t) ==
    { Nil, Boolean(TRUE), Integer(FALSE, One), F32(OneAndHalf), F64(NaN),
      String(<<"d", "e", "n", "i", "e", "d">>), Binary(<<"a", BadByte>>),
      Map(<< <<String(<<"a">>), Nil>> >>), Ext(One, <<"a">>) }
    \cup { Array(Prefix(t, n)) : n \in (0..MaxReplyLen) \ {4} }
    \cup { Array([i \in 1..n |-> Nil]) : n \in (0..MaxReplyLen) \ {4} }
Replies(t) == Envelopes(t) \cup NonEnvelopes(t)
\* the replies of a daemon that answers [1, id, nil, true], [1, id, "denied", nil]
\* or nil
FewReplies(t) ==
    { Array(<<Integer(FALSE, One), Integer(FALSE, msgid[t].val), Nil, Boolean(TRUE)>>),
      Array(<<Integer(FALSE, One), Integer(FALSE, msgid[t].val),
              String(<<"d", "e", "n", "i", "e", "d">>), Nil>>),
      Nil }

(***************************************************************************)
(* The steps of call, thread t.                                            *)
(***************************************************************************)
\* main calls call(socket_path, method, params), the arguments among `calls`
Invoke(t, calls) ==
    /\ pc[t] = "Idle"
    /\ invoked < MaxCalls
    /\ \E a \in calls : args' = [args EXCEPT ![t] = Some(a)]
    /\ pc' = [pc EXCEPT ![t] = "Connecting"]
    /\ invoked' = invoked + 1
    /\ floor' = [floor EXCEPT ![t] = returned]
    /\ UNCHANGED <<MSG_ID, earlier, connectFailed, issued, returned>>
    /\ UNCHANGED <<stream, msgid, request, buf, outcome, ops>>
    /\ UNCHANGED <<bridgeVars, mainVars>>

\* UnixStream::connect(socket_path).map_err(..)?
Connect(t) ==
    /\ pc[t] = "Connecting"
    /\ ops' = [ops EXCEPT ![t].connect = Bump(@)]
    /\ \/ /\ stream' = [stream EXCEPT ![t] = "open"]
          /\ pc' = [pc EXCEPT ![t] = "Sending"]
          /\ UNCHANGED <<outcome, connectFailed>>
       \/ /\ \E e \in ConnectErrors :
                Exit(t, Err(<<"cannot connect to ">> \o args[t].val.socket_path
                            \o <<": ">> \o e))
          /\ connectFailed' = connectFailed + 1
    /\ UNCHANGED <<MSG_ID, earlier, invoked, issued, returned>>
    /\ UNCHANGED <<args, floor, msgid, request, buf>>
    /\ UNCHANGED <<bridgeVars, mainVars>>

\* a faulty fetch_add: the counter is loaded in one step and stored in another
FetchAddRacy(t) ==
    /\ pc[t] = "Sending"
    /\ request[t] = None
    /\ \/ /\ msgid[t] = None
          /\ msgid' = [msgid EXCEPT ![t] = Some(MSG_ID)]
          /\ UNCHANGED <<MSG_ID, request, issued>>
       \/ /\ msgid[t] # None
          /\ MSG_ID' = WrappingAdd1(msgid[t].val)
          /\ request' = [request EXCEPT ![t] =
                Some(BuildRequest(msgid[t].val, args[t].val.method, args[t].val.params))]
          /\ issued' = Append(issued, IdOf(request'[t].val))
          /\ UNCHANGED msgid
    /\ UNCHANGED <<earlier, invoked, connectFailed, returned>>
    /\ UNCHANGED <<pc, args, floor, stream, buf, outcome, ops>>
    /\ UNCHANGED <<bridgeVars, mainVars>>

\* MSG_ID.fetch_add(1, SeqCst), the request envelope and its encoding into a
\* Vec (write_value into memory does not fail)
FetchAdd(t) ==
    /\ pc[t] = "Sending"
    /\ request[t] = None
    /\ msgid' = [msgid EXCEPT ![t] = Some(MSG_ID)]
    /\ MSG_ID' = WrappingAdd1(MSG_ID)
    /\ request' = [request EXCEPT ![t] =
          Some(BuildRequest(MSG_ID, args[t].val.method, args[t].val.params))]
    /\ issued' = Append(issued, IdOf(request'[t].val))
    /\ UNCHANGED <<earlier, invoked, connectFailed, returned>>
    /\ UNCHANGED <<pc, args, floor, stream, buf, outcome, ops>>
    /\ UNCHANGED <<bridgeVars, mainVars>>

\* stream.write_all(&buf).map_err(..)?
WriteAll(t) ==
    /\ pc[t] = "Sending"
    /\ request[t] # None
    /\ ops' = [ops EXCEPT ![t].write = Bump(@)]
    /\ \/ /\ pc' = [pc EXCEPT ![t] = "AwaitingReply"]
          /\ UNCHANGED <<outcome, stream, returned>>
       \/ /\ \E e \in WriteErrors : Exit(t, Err(<<"write error: ">> \o e))
          /\ returned' = returned \cup {msgid[t].val}
    /\ UNCHANGED <<MSG_ID, earlier, invoked, connectFailed, issued>>
    /\ UNCHANGED <<args, floor, msgid, request, buf>>
    /\ UNCHANGED <<bridgeVars, mainVars>>

\* stream.read(&mut response_buf).map_err(..)?, the daemon answering with one
\* of `replies`, with nothing or with bytes that are no encoding
Read(t, replies) ==
    /\ pc[t] = "AwaitingReply"
    /\ ops' = [ops EXCEPT ![t].read = Bump(@)]
    /\ \/ /\ \E b \in {Empty, Malformed} \cup {Encoded(v) : v \in replies} :
                buf' = [buf EXCEPT ![t] = Some(b)]
          /\ pc' = [pc EXCEPT ![t] = "Decoding"]
          /\ UNCHANGED <<outcome, stream, returned>>
       \/ /\ \E e \in ReadErrors : Exit(t, Err(<<"read error: ">> \o e))
          /\ returned' = returned \cup {msgid[t].val}
          /\ UNCHANGED buf
    /\ UNCHANGED <<MSG_ID, earlier, invoked, connectFailed, issued>>
    /\ UNCHANGED <<args, floor, msgid, request>>
    /\ UNCHANGED <<bridgeVars, mainVars>>

\* rmpv::decode::read_value(..).map_err(..)? and the match on the response
Decode(t) ==
    /\ pc[t] = "Decoding"
    /\ ops' = [ops EXCEPT ![t].decode = Bump(@)]
    /\ LET response == read_value(buf[t].val)
       IN IF response.ok
          THEN Exit(t, Dispatch(response.val))
          ELSE Exit(t, Err(<<"decode error: ">> \o response.msg))
    /\ returned' = returned \cup {msgid[t].val}
    /\ UNCHANGED <<MSG_ID, earlier, invoked, connectFailed, issued>>
    /\ UNCHANGED <<args, floor, msgid, request, buf>>
    /\ UNCHANGED <<bridgeVars, mainVars>>

\* the caller has the result; the locals of the invocation are gone
Return(t) ==
    /\ pc[t] \in {"Succeeded", "Failed"}
    /\ pc' = [pc EXCEPT ![t] = "Idle"]
    /\ args' = [args EXCEPT ![t] = None]
    /\ floor' = [floor EXCEPT ![t] = {}]
    /\ stream' = [stream EXCEPT ![t] = "none"]
    /\ msgid' = [msgid EXCEPT ![t] = None]
    /\ request' = [request EXCEPT ![t] = None]
    /\ buf' = [buf EXCEPT ![t] = None]
    /\ outcome' = [outcome EXCEPT ![t] = None]
    /\ ops' = [ops EXCEPT ![t] = NoOps]
    /\ UNCHANGED procVars
    /\ UNCHANGED <<bridgeVars, mainVars>>

(***************************************************************************)
(* The process.  MSG_ID is 1 when the process starts; a run of the model   *)
(* starts there, or after 2^32 - 2 earlier invocations that all connected, *)
(* so that the counter is about to wrap.                                   *)
(***************************************************************************)
U32MaxLess1 == <<"4", "2", "9", "4", "9", "6", "7", "2", "9", "4">>

InitProc ==
    /\ earlier \in {Zero, U32MaxLess1}
    /\ MSG_ID = (IF earlier = Zero THEN One ELSE U32Max)
    /\ invoked = 0
    /\ connectFailed = 0
    /\ issued = <<>>
    /\ returned = {}
    /\ pc = [t \in Threads |-> "Idle"]
    /\ args = [t \in Threads |-> None]
    /\ floor = [t \in Threads |-> {}]
    /\ stream = [t \in Threads |-> "none"]
    /\ msgid = [t \in Threads |-> None]
    /\ request = [t \in Threads |-> None]
    /\ buf = [t \in Threads |-> None]
    /\ outcome = [t \in Threads |-> None]
    /\ ops = [t \in Threads |-> NoOps]
    /\ stdout = <<>>
    /\ stderr = <<>>
    /\ exit = None

NoBridge ==
    /\ bpc = "none"
    /\ human = None
    /\ wire = None
    /\ shown = None

\* the program as written: one synchronous call path, any daemon
Init == InitProc /\ NoBridge
Next ==
    \/ Invoke(MainThread, CallArgs)
    \/ Connect(MainThread)
    \/ FetchAdd(MainThread)
    \/ WriteAll(MainThread)
    \/ Read(MainThread, Replies(MainThread))
    \/ Decode(MainThread)
    \/ Return(MainThread)
Spec == Init /\ [][Next]_vars

\* a host program that calls from several threads
NextThreads ==
    \/ \E t \in Threads : Invoke(t, FewCallArgs)
    \/ \E t \in Threads : Connect(t)
    \/ \E t \in Threads : FetchAdd(t)
    \/ \E t \in Threads : WriteAll(t)
    \/ \E t \in Threads : Read(t, FewReplies(t))
    \/ \E t \in Threads : Decode(t)
    \/ \E t \in Threads : Return(t)
SpecThreads == Init /\ [][NextThreads]_vars

(***************************************************************************)
(* One run of the cortex process: main dispatches on the command, makes at *)
(* most one call, matches on the result and returns an ExitCode.           *)
(***************************************************************************)
\* println!("{}", serde_json::to_string(&json)) or to_string_pretty: one line
\* of output, the rendering of `json` in the chosen layout
JsonLine(json, pretty) == [json |-> json, pretty |-> pretty]

\* a faulty match: the error is reported but the process exits with SUCCESS
MainMatchAlwaysSuccess(result, pretty) ==
    IF result.ok
    THEN [out |-> (IF result.val.some
                   THEN <<JsonLine(msgpack_to_json(result.val.val), pretty)>>
                   ELSE <<>>),
          err |-> <<>>, code |-> "SUCCESS"]
    ELSE [out |-> <<>>, err |-> << <<"error: ">> \o result.msg >>,
          code |-> "SUCCESS"]

\* match result { Ok(Some(value)) => .., Ok(None) => .., Err(e) => .. }: what
\* main writes to standard output and standard error, and its ExitCode
MainMatch(result, pretty) ==
    IF result.ok
    THEN [out |-> (IF result.val.some
                   THEN <<JsonLine(msgpack_to_json(result.val.val), pretty)>>
                   ELSE <<>>),
          err |-> <<>>, code |-> "SUCCESS"]
    ELSE [out |-> <<>>, err |-> << <<"error: ">> \o result.msg >>,
          code |-> "FAILURE"]

\* main returns: the process has exited
Finish(m) ==
    /\ stdout' = stdout \o m.out
    /\ stderr' = stderr \o m.err
    /\ exit' = Some(m.code)
    /\ pc' = [pc EXCEPT ![MainThread] = "Exited"]

\* the help topics: none, a known one, an unknown one
HelpTopics == { None, Some(<<"p", "i", "n", "g">>), Some(<<"b", "a", "b">>) }
KnownTopics == { <<>>, <<"p", "i", "n", "g">> }
\* print_help and print_topic_help
HelpOut(topic) ==
    IF ~topic.some \/ topic.val = <<>> THEN << <<"cortex - Local storage daemon CLI">> >>
    ELSE IF topic.val \in KnownTopics THEN << <<"cortex ">> \o topic.val >>
    ELSE <<>>
HelpErr(topic) ==
    IF topic.some /\ topic.val \notin KnownTopics
    THEN << <<"Unknown help topic: ">> \o topic.val, <<"Available commands:">>,
            <<"Available patterns:">> >>
    ELSE <<>>

\* serde_json's message for a text that is no JSON
JsonErrors == { <<"expected value at line 1 column 1">> }

\* no command, or help TOPIC: help is printed, the result is Ok(None), and
\* the match on it follows
MainHelp ==
    /\ pc[MainThread] = "Idle"
    /\ exit = None
    /\ invoked = 0
    /\ \E topic \in HelpTopics, pretty \in BOOLEAN :
          LET m == MainMatch(Ok(None), pretty)
          IN Finish([out |-> HelpOut(topic) \o m.out,
                     err |-> HelpErr(topic) \o m.err,
                     code |-> m.code])
    /\ UNCHANGED procVars
    /\ UNCHANGED <<args, floor, stream, msgid, request, buf, outcome, ops>>
    /\ UNCHANGED bridgeVars

\* put or query with a text that is no JSON: main returns before any call
MainInvalidJson ==
    /\ pc[MainThread] = "Idle"
    /\ exit = None
    /\ invoked = 0
    /\ \E e \in JsonErrors, what \in { <<"error: invalid JSON: ">>,
                                       <<"error: invalid JSON pattern: ">> } :
          Finish([out |-> <<>>, err |-> <<what \o e>>, code |-> "FAILURE"])
    /\ UNCHANGED procVars
    /\ UNCHANGED <<args, floor, stream, msgid, request, buf, outcome, ops>>
    /\ UNCHANGED bridgeVars

\* a command that calls the daemon: main invokes call, once
MainCall ==
    /\ invoked = 0
    /\ exit = None
    /\ Invoke(MainThread, CallArgs)

\* call has returned `result`: main matches on it and returns
MainResult ==
    /\ pc[MainThread] \in {"Succeeded", "Failed"}
    /\ \E pretty \in BOOLEAN : Finish(MainMatch(outcome[MainThread].val, pretty))
    /\ UNCHANGED procVars
    /\ UNCHANGED <<args, floor, stream, msgid, request, buf, outcome, ops>>
    /\ UNCHANGED bridgeVars

NextMain ==
    \/ MainHelp
    \/ MainInvalidJson
    \/ MainCall
    \/ Connect(MainThread)
    \/ FetchAdd(MainThread)
    \/ WriteAll(MainThread)
    \/ Read(MainThread, Replies(MainThread))
    \/ Decode(MainThread)
    \/ MainResult
SpecMain == Init /\ [][NextMain]_vars

(***************************************************************************)
(* The value bridge on its own: a Human Value is converted to a Wire Value *)
(* (main's put and query) and a Wire Value to a Human Value (main's        *)
(* printing of a result).                                                  *)
(***************************************************************************)
\* the sequences over S of length at most n
SeqsUpTo(S, n) == UNION { [1..k -> S] : k \in 0..n }

Texts == { <<>>, <<"a">>, <<"4", "2">> }
MalformedBytes == { <<BadByte>>, <<"a", BadByte>> }

HumanAtoms ==
    { JNull, JBool(TRUE), JBool(FALSE),
      JNumber(PosInt(Zero)), JNumber(PosInt(FortyTwo)), JNumber(NegInt(One)),
      JNumber(PosInt(I64Max)), JNumber(NegInt(Two63)),
      JNumber(PosInt(Two63)), JNumber(Float(OneAndHalf)) }
    \cup { JString(s) : s \in Texts }
HumanFew == { JNull, JNumber(PosInt(FortyTwo)), JString(<<"a">>), JNumber(PosInt(Two63)) }
ObjectsOver(V) ==
    { JObject(o) : o \in UNION { [K -> V] : K \in { K \in SUBSET Texts : Cardinality(K) <= MaxLen } } }
HumanFlat ==
    { JArray(a) : a \in SeqsUpTo(HumanAtoms, MaxLen) } \cup ObjectsOver(HumanFew)
HumanInner ==
    { JArray(<<>>), JArray(<<JNumber(NegInt(One)), JNull>>), JObject(EmptyObject),
      JObject((<<"a">> :> JNumber(PosInt(I64Max))) @@ (<<>> :> JBool(TRUE))) }
HumanNested ==
    { JArray(a) : a \in SeqsUpTo(HumanInner, MaxLen) } \cup ObjectsOver(HumanInner)
\* the JSON texts main may be given
HumanInputs == HumanAtoms \cup HumanFlat \cup HumanNested

WireAtoms ==
    { Nil, Boolean(TRUE), Boolean(FALSE),
      Integer(FALSE, Zero), Integer(FALSE, FortyTwo), Integer(TRUE, One),
      Integer(FALSE, I64Max), Integer(TRUE, Two63), Integer(FALSE, Two63),
      F64(OneAndHalf), F64(NaN), F32(Inf), F32(OneAndHalf),
      Binary(<<"a">>), Ext(One, <<"a">>) }
    \cup { String(s) : s \in Texts \cup MalformedBytes }
    \cup { Binary(b) : b \in MalformedBytes }
WireKeys ==
    { String(<<"a">>), String(<<"4", "2">>), String(<<"a", BadByte>>), String(<<BadByte>>),
      Integer(FALSE, FortyTwo), Nil, Array(<<Integer(FALSE, FortyTwo)>>) }
WireFew == { Nil, Boolean(TRUE), String(<<"a">>), String(<<BadByte>>) }
WireFlat ==
    { Array(a) : a \in SeqsUpTo(WireAtoms, MaxLen) }
    \cup { Map(m) : m \in SeqsUpTo(WireKeys \X WireFew, MaxLen) }
WireInner ==
    { Array(<<String(<<BadByte>>)>>), Map(<< <<Integer(FALSE, FortyTwo), String(<<"a">>)>> >>),
      Map(<< <<String(<<BadByte>>), Nil>> >>) }
WireNested ==
    { Array(a) : a \in SeqsUpTo(WireInner, MaxLen) }
    \cup { Map(m) : m \in SeqsUpTo({String(<<"a">>), Map(<<>>)} \X WireInner, MaxLen) }
\* the results a daemon may return
WireInputs == WireAtoms \cup WireFlat \cup WireNested

InitBridge ==
    /\ InitProc
    /\ \/ /\ bpc = "human"
          /\ human \in {Some(h) : h \in HumanInputs}
          /\ wire = None
       \/ /\ bpc = "wire"
          /\ human = None
          /\ wire \in {Some(w) : w \in WireInputs}
    /\ shown = None

\* let record_msgpack = json_to_msgpack(&record)
ToWire ==
    /\ bpc = "human"
    /\ wire' = Some(json_to_msgpack(human.val))
    /\ bpc' = "wire"
    /\ UNCHANGED <<human, shown>>
    /\ UNCHANGED <<procVars, callVars, mainVars>>

\* let json = msgpack_to_json(&value)
ToHuman ==
    /\ bpc = "wire"
    /\ shown' = Some(msgpack_to_json(wire.val))
    /\ bpc' = "shown"
    /\ UNCHANGED <<human, wire>>
    /\ UNCHANGED <<procVars, callVars, mainVars>>

NextBridge == ToWire \/ ToHuman
SpecBridge == InitBridge /\ [][NextBridge]_vars

(***************************************************************************)
(* The failure kinds of the exchange.  call returns a bare message; the    *)
(* kind is the place in call that formed it.                               *)
(***************************************************************************)
FailureKind(msg) ==
    CASE msg = <<"invalid response format">> -> "ProtocolFailure"
      [] msg # <<>> /\ msg[1] = "cannot connect to " -> "ConnectFailure"
      [] msg # <<>> /\ msg[1] = "write error: " -> "WriteFailure"
      [] msg # <<>> /\ msg[1] = "read error: " -> "ReadFailure"
      [] msg # <<>> /\ msg[1] = "decode error: " -> "DecodeFailure"
      [] OTHER -> "RpcFailure"

Terminal == {"Succeeded", "Failed"}
Quiescent == \A t \in Threads : pc[t] \in Terminal \cup {"Idle"}

\* c + 1 modulo 2^32, and c + n modulo 2^32
U32Succ(c) == IF c = U32Max THEN Zero ELSE NumSucc(c)
RECURSIVE U32Add(_, _)
U32Add(c, n) == IF n = 0 THEN c ELSE U32Add(U32Succ(c), n - 1)
\* a + n, unbounded
RECURSIVE NumAdd(_, _)
NumAdd(a, n) == IF n = 0 THEN a ELSE NumAdd(NumSucc(a), n - 1)

\* invocations that have entered call and neither failed to connect nor
\* reached the fetch_add yet
Pending ==
    Cardinality({ t \in Threads :
        pc[t] = "Connecting" \/ (pc[t] = "Sending" /\ msgid[t] = None) })

(***************************************************************************)
(* C1.                                                                     *)
(***************************************************************************)
\* C1 as stated: after K invocations of call, whatever their outcomes
\* (ConnectFailure included), the counter is 1 + K modulo 2^32.
C1_EveryInvocationAdvances ==
    Quiescent => MSG_ID = U32Add(U32Succ(earlier), invoked)

\* C1 as amended: the counter starts at 1, is never reset, and an invocation
\* advances it by exactly one when its connect succeeds and leaves it
\* unchanged when it ends in ConnectFailure; with K invocations of which F
\* ended in ConnectFailure (and P still before their fetch_add) the counter
\* is 1 + K - F - P modulo 2^32.
C1_ConnectedInvocationsAdvance ==
    MSG_ID = U32Add(U32Succ(earlier), invoked - connectFailed - Pending)

\* two invocations, one ending in ConnectFailure and one that connected, the
\* latter taking the counter across the 32-bit boundary
C1_Witness ==
    /\ Quiescent
    /\ invoked = 2
    /\ connectFailed = 1
    /\ earlier = U32MaxLess1
    /\ MSG_ID = Zero

(***************************************************************************)
(* C2.                                                                     *)
(***************************************************************************)
\* fewer than 2^32 calls were issued in the life of the process
FewerThanTwo32Calls == NumLeq(NumAdd(earlier, invoked), U32Max)

\* C2: with fewer than 2^32 calls in total, whatever the interleaving of the
\* threads, the ids placed in request envelopes are pairwise distinct (also
\* from the ids 1..earlier of the earlier calls), a call invoked after
\* another returned carries a strictly larger id, and each envelope
\* carries the id its own call obtained from the counter.
C2_DistinctIncreasingIds ==
    FewerThanTwo32Calls =>
        /\ \A i, j \in DOMAIN issued : i # j => issued[i] # issued[j]
        /\ \A i \in DOMAIN issued : NumLess(earlier, issued[i])
        /\ \A t \in Threads :
              msgid[t] # None => \A id \in floor[t] : NumLess(id, msgid[t].val)
        /\ \A t \in Threads :
              request[t] # None =>
                  /\ msgid[t] # None
                  /\ request[t].val.items[2] = Integer(FALSE, msgid[t].val)

\* two threads with their calls in flight at once, each with its own id in
\* its request envelope
C2_Witness ==
    /\ FewerThanTwo32Calls
    /\ \E t, u \in Threads :
          /\ t # u
          /\ request[t] # None
          /\ request[u] # None
          /\ pc[t] = "AwaitingReply"
          /\ pc[u] = "Sending"
          /\ IdOf(request[t].val) # IdOf(request[u].val)

(***************************************************************************)
(* C3.                                                                     *)
(***************************************************************************)
\* the read of the invocation failed or returned zero bytes
ReadFailedOrEmpty(t) ==
    ops[t].read > 0 /\ (buf[t] = None \/ buf[t] = Some(Empty))

\* C3: when the read fails or returns zero bytes, call ends in ReadFailure
\* (the "read error" message) and no decoding of a reply is attempted.
C3_EmptyReadIsReadFailure ==
    \A t \in Threads :
        pc[t] \in Terminal /\ ReadFailedOrEmpty(t) =>
            /\ ~outcome[t].val.ok
            /\ FailureKind(outcome[t].val.msg) = "ReadFailure"
            /\ ops[t].decode = 0

(***************************************************************************)
(* C4.                                                                     *)
(***************************************************************************)
\* the reply decoded, and to this value
DecodedReply(t) == read_value(buf[t].val).val
HasDecoded(t) == buf[t] # None /\ read_value(buf[t].val).ok

FourElements(v) == v.t = "Array" /\ Len(v.items) = 4

\* C4: a reply that decodes to anything but an array of exactly 4 elements
\* makes call fail with the message "invalid response format"; no result is
\* returned.
C4_ShapeRejected ==
    \A t \in Threads :
        pc[t] \in Terminal /\ HasDecoded(t) /\ ~FourElements(DecodedReply(t)) =>
            /\ pc[t] = "Failed"
            /\ outcome[t] = Some(Err(<<"invalid response format">>))
            /\ FailureKind(outcome[t].val.msg) = "ProtocolFailure"

\* a reply of five elements, the first four a well-formed success, rejected
C4_Witness ==
    \E t \in Threads :
        /\ pc[t] = "Failed"
        /\ HasDecoded(t)
        /\ DecodedReply(t).t = "Array"
        /\ Len(DecodedReply(t).items) = 5
        /\ DecodedReply(t).items[4] = Boolean(TRUE)
        /\ outcome[t] = Some(Err(<<"invalid response format">>))

(***************************************************************************)
(* C5.                                                                     *)
(***************************************************************************)
\* the reply of a finished invocation decoded to a 4-element array
EnvelopeDecoded(t) ==
    pc[t] \in Terminal /\ HasDecoded(t) /\ FourElements(DecodedReply(t))

\* C5 as stated: a non-nil error slot makes call fail, the result slot
\* ignored, with the string content when the slot is a text string (read
\* either as its bytes or as its lossy decoding) and its rendering
\* otherwise; a nil error slot makes call return the result slot.
C5_ErrorSlotMessageIsContent ==
    \A t \in Threads :
        EnvelopeDecoded(t) =>
            LET error == DecodedReply(t).items[3]
                result == DecodedReply(t).items[4]
            IN IF error = Nil
               THEN outcome[t] = Some(Ok(Some(result)))
               ELSE /\ pc[t] = "Failed"
                    /\ ~outcome[t].val.ok
                    /\ IF error.t = "String"
                       THEN outcome[t].val.msg \in
                                {error.bytes, from_utf8_lossy(error.bytes)}
                       ELSE outcome[t].val.msg = Render(error)

\* C5 as amended: as stated, except that a text string in the error slot
\* whose bytes are not valid text gives the fixed message "unknown error".
C5_ErrorSlotPrecedence ==
    \A t \in Threads :
        EnvelopeDecoded(t) =>
            LET error == DecodedReply(t).items[3]
                result == DecodedReply(t).items[4]
            IN IF error = Nil
               THEN /\ pc[t] = "Succeeded"
                    /\ outcome[t] = Some(Ok(Some(result)))
               ELSE /\ pc[t] = "Failed"
                    /\ outcome[t] =
                          Some(Err(CASE error.t = "String" /\ IsUtf8(error.bytes) ->
                                          error.bytes
                                     [] error.t = "String" /\ ~IsUtf8(error.bytes) ->
                                          <<"unknown error">>
                                     [] OTHER -> Render(error)))
                    /\ FailureKind(outcome[t].val.msg) = "RpcFailure"

\* a malformed text string in the error slot beside a usable result
C5_Witness ==
    \E t \in Threads :
        /\ EnvelopeDecoded(t)
        /\ DecodedReply(t).items[3] = String(<<"a", BadByte>>)
        /\ DecodedReply(t).items[4] = Boolean(TRUE)
        /\ outcome[t] = Some(Err(<<"unknown error">>))

(***************************************************************************)
(* C6.                                                                     *)
(***************************************************************************)
PhaseEdges ==
    { <<"Idle", "Connecting">>,
      <<"Connecting", "Sending">>, <<"Connecting", "Failed">>,
      <<"Sending", "AwaitingReply">>, <<"Sending", "Failed">>,
      <<"AwaitingReply", "Decoding">>, <<"AwaitingReply", "Failed">>,
      <<"Decoding", "Succeeded">>, <<"Decoding", "Failed">>,
      <<"Succeeded", "Idle">>, <<"Failed", "Idle">> }

OncePerInvocation(t) ==
    /\ ops[t].connect <= 1
    /\ ops[t].write <= 1
    /\ ops[t].read <= 1
    /\ ops[t].write > 0 => ops[t].connect = 1 /\ stream[t] # "none"
    /\ ops[t].read > 0 => ops[t].write = 1
    /\ (pc[t] = "Failed" /\ FailureKind(outcome[t].val.msg) = "ConnectFailure") =>
          ops[t].write = 0 /\ ops[t].read = 0 /\ request[t] = None
    /\ (pc[t] = "Failed" /\ FailureKind(outcome[t].val.msg) = "WriteFailure") =>
          ops[t].read = 0

\* C6: an invocation moves through Idle, Connecting, Sending, Awaiting-Reply,
\* Decoding to Succeeded or Failed and back to Idle only by returning; it
\* connects, writes and reads at most once each, writes only after the
\* connect succeeded, reads only after the write succeeded, and a failure
\* is followed by nothing but the return (a new exchange is a new
\* invocation by the caller).
C6_PhaseOrder ==
    /\ [](\A t \in Threads : OncePerInvocation(t))
    /\ [][\A t \in Threads :
            /\ pc'[t] # pc[t] => <<pc[t], pc'[t]>> \in PhaseEdges
            /\ (pc[t] = "Idle" /\ pc'[t] # "Idle") => invoked' = invoked + 1
            /\ pc'[t] = pc[t] => ops'[t].connect = ops[t].connect]_vars

\* an invocation that went through every phase, each operation done once
C6_Witness ==
    \E t \in Threads :
        /\ pc[t] = "Succeeded"
        /\ ops[t] = [connect |-> 1, write |-> 1, read |-> 1, decode |-> 1]

(***************************************************************************)
(* C7.                                                                     *)
(***************************************************************************)
\* C7: once call has returned, with success or any failure, the connection
\* it opened is closed, and no connection is open outside an invocation.
C7_ConnectionClosedOnReturn ==
    \A t \in Threads :
        /\ pc[t] \in Terminal =>
              stream[t] = (IF ~outcome[t].val.ok
                              /\ FailureKind(outcome[t].val.msg) = "ConnectFailure"
                           THEN "none" ELSE "closed")
        /\ pc[t] = "Idle" => stream[t] = "none"

\* a failure after the connection was opened and used: the read failed
C7_Witness ==
    \E t \in Threads :
        /\ pc[t] = "Failed"
        /\ FailureKind(outcome[t].val.msg) = "ReadFailure"
        /\ stream[t] = "closed"

(***************************************************************************)
(* C8.                                                                     *)
(***************************************************************************)
\* a Human Value of null, booleans, strings, integers within the signed
\* 64-bit range, and arrays and objects of such values
RECURSIVE PureText(_)
PureText(v) ==
    CASE v.j = "Null" -> TRUE
      [] v.j = "Bool" -> TRUE
      [] v.j = "String" -> TRUE
      [] v.j = "Number" ->
            \/ v.n.k = "PosInt" /\ NumLeq(v.n.digits, I64Max)
            \/ v.n.k = "NegInt" /\ NumLeq(v.n.digits, Two63)
      [] v.j = "Array" -> \A i \in DOMAIN v.a : PureText(v.a[i])
      [] v.j = "Object" -> \A key \in DOMAIN v.o : PureText(v.o[key])

\* C8: msgpack_to_json(json_to_msgpack(v)) = v for every such v.
C8_RoundTrip ==
    (bpc = "shown" /\ human # None /\ PureText(human.val)) =>
        shown = Some(human.val)

\* an object holding i64::MAX, converted there and back
C8_Witness ==
    /\ bpc = "shown"
    /\ human = Some(JArray(<<JObject((<<"a">> :> JNumber(PosInt(I64Max)))
                                       @@ (<<>> :> JBool(TRUE)))>>))
    /\ wire.val.items[1].t = "Map"
    /\ shown = human

(***************************************************************************)
(* C9.                                                                     *)
(***************************************************************************)
\* the key text the claim gives an entry: the text of a text string (a
\* malformed one decoded with replacement characters), else the rendering
ClaimedKeyText(k) == IF k.t = "String" THEN from_utf8_lossy(k.bytes) ELSE Render(k)

\* the key text of an entry that is kept: the text of a well-formed text
\* string, the rendering of a key of any other kind
KeptKeyText(k) == IF k.t = "String" THEN k.bytes ELSE Render(k)
IsKept(k) == k.t = "String" => IsUtf8(k.bytes)

\* the object holds exactly the key texts keys[i] of the entries i in
\* `kept`, each mapped to the converted value of the last such entry with
\* that key text
HoldsEntries(obj, entries, kept, keys) ==
    /\ DOMAIN obj = { keys[i] : i \in kept }
    /\ \A i \in kept :
          (\A j \in kept : j > i => keys[j] # keys[i]) =>
              obj[keys[i]] = msgpack_to_json(entries[i][2])

\* C9 as stated: no entry of a wire mapping is dropped, whatever its key.
C9_NoEntryDropped ==
    (bpc = "shown" /\ wire.val.t = "Map") =>
        /\ shown.val.j = "Object"
        /\ HoldsEntries(shown.val.o, wire.val.entries, DOMAIN wire.val.entries,
                        [i \in DOMAIN wire.val.entries |->
                            ClaimedKeyText(wire.val.entries[i][1])])

\* C9 as amended: an entry whose key is a text string with malformed bytes
\* is dropped; every other entry is kept under the key's text (a text
\* string) or rendering (any other kind), the last entry with a key text
\* winning.
C9_MalformedKeysDropped ==
    (bpc = "shown" /\ wire.val.t = "Map") =>
        /\ shown.val.j = "Object"
        /\ HoldsEntries(shown.val.o, wire.val.entries,
                        { i \in DOMAIN wire.val.entries : IsKept(wire.val.entries[i][1]) },
                        [i \in DOMAIN wire.val.entries |->
                            KeptKeyText(wire.val.entries[i][1])])

\* an entry with a malformed key beside an integer key 42
C9_Witness ==
    /\ bpc = "shown"
    /\ wire = Some(Map(<< <<String(<<BadByte>>), Boolean(TRUE)>>,
                          <<Integer(FALSE, FortyTwo), String(<<"a">>)>> >>))
    /\ shown = Some(JObject(<<"4", "2">> :> JString(<<"a">>)))

(***************************************************************************)
(* C10.                                                                    *)
(***************************************************************************)
\* C10 as stated: a text string converts to its text, malformed bytes to
\* the text with replacement characters, as a raw byte sequence does.
C10_MalformedTextReplaced ==
    (bpc = "shown" /\ wire.val.t = "String") =>
        shown = Some(JString(from_utf8_lossy(wire.val.bytes)))

\* C10 as amended: the conversion never fails; a text string converts to
\* its text, and one with malformed bytes to the empty string (not, as a
\* raw byte sequence does, to the text with replacement characters).
C10_MalformedTextEmptied ==
    (bpc = "shown" /\ wire.val.t = "String") =>
        shown = Some(JString(IF IsUtf8(wire.val.bytes) THEN wire.val.bytes ELSE <<>>))

\* a text string with one valid and one invalid byte
C10_Witness ==
    /\ bpc = "shown"
    /\ wire = Some(String(<<"a", BadByte>>))
    /\ shown = Some(JString(<<>>))

(***************************************************************************)
(* C11.                                                                    *)
(***************************************************************************)
\* the command of this run invoked call, and call has returned `result`
CallReturned == args[MainThread] # None /\ outcome[MainThread] # None
ResultOfCall == outcome[MainThread].val

\* C11: for every command that invokes call: until main has matched on the
\* result nothing is written to either stream; if call failed, with whatever
\* failure kind, the process writes nothing to standard output, writes
\* exactly the line "error: <message>" to standard error and exits with
\* FAILURE; it exits with SUCCESS only if call succeeded, and standard
\* output is written only if call succeeded (then one line, the result).
C11_FailureSuppressesOutput ==
    args[MainThread] # None =>
        /\ exit = None => stdout = <<>> /\ stderr = <<>>
        /\ exit # None =>
              /\ CallReturned
              /\ ~ResultOfCall.ok =>
                    /\ stdout = <<>>
                    /\ stderr = << <<"error: ">> \o ResultOfCall.msg >>
                    /\ exit = Some("FAILURE")
              /\ exit = Some("SUCCESS") => ResultOfCall.ok
              /\ stdout # <<>> =>
                    /\ ResultOfCall.ok
                    /\ Len(stdout) = 1
                    /\ stdout[1].json = msgpack_to_json(ResultOfCall.val.val)
                    /\ stderr = <<>>

\* the daemon answered with an error, the process reported it and exited
\* with FAILURE
C11_Witness ==
    /\ exit = Some("FAILURE")
    /\ CallReturned
    /\ ~ResultOfCall.ok
    /\ FailureKind(ResultOfCall.msg) = "RpcFailure"
    /\ stdout = <<>>
    /\ stderr = << <<"error: ">>
                   \o <<"d", "e", "n", "i", "e", "d">> >>

(***************************************************************************)
(* C12.                                                                    *)
(***************************************************************************)
\* message types and correlation ids a reply may carry in elements 0 and 1:
\* the ones a well-behaved daemon sends, other integers, and non-integers
TypeVariants ==
    ReplyTypes \cup { Integer(FALSE, Zero), Integer(FALSE, FortyTwo),
                      Integer(TRUE, One), Boolean(TRUE), String(<<"a">>) }
IdVariants(t) ==
    ReplyIds(t) \cup { Integer(FALSE, WrappingAdd1(msgid[t].val)),
                       Integer(TRUE, One), Nil, String(<<"a", BadByte>>),
                       Array(<<>>) }
\* the replies that agree with `reply` on the error slot and the result slot
Siblings(t, reply) ==
    { Array(<<ty, id, reply.items[3], reply.items[4]>>) :
        ty \in TypeVariants, id \in IdVariants(t) }

\* C12: when call has returned on a decoded 4-element reply, what it
\* returned (the success value or the failure message) is what call returns
\* on every 4-element reply with the same error slot and result slot,
\* whatever that reply's message type (1, another integer, no integer) and
\* correlation id (the request's, another one, no integer): two replies that
\* agree on elements 2 and 3 give the same outcome.
C12_OutcomeIgnoresTypeAndId ==
    \A t \in Threads :
        (pc[t] \in Terminal /\ HasDecoded(t) /\ FourElements(DecodedReply(t))) =>
            /\ DecodedReply(t) \in Siblings(t, DecodedReply(t))
            /\ \A other \in Siblings(t, DecodedReply(t)) :
                  Dispatch(other) = outcome[t].val

\* call succeeded on a reply whose message type is nil and whose id is not
\* the request's
C12_Witness ==
    /\ pc[MainThread] = "Succeeded"
    /\ HasDecoded(MainThread)
    /\ FourElements(DecodedReply(MainThread))
    /\ DecodedReply(MainThread).items[1] = Nil
    /\ DecodedReply(MainThread).items[2] = Integer(FALSE, FortyTwo)
    /\ msgid[MainThread].val # FortyTwo
    /\ outcome[MainThread] = Some(Ok(Some(Boolean(TRUE))))

====
